---- MODULE Spec2Model ----
(***************************************************************************)
(* Session lifecycle, billing and checkout of the gaming-lounge backend.   *)
(*                                                                         *)
(* The relational store is modelled as PostgreSQL (the staging/production  *)
(* client of knexfile.ts) at READ COMMITTED: a statement sees committed    *)
(* rows, a row written or selected FOR UPDATE inside a transaction stays   *)
(* locked until that transaction ends, and a plain SELECT never blocks.    *)
(* Every request handler is a process that runs from await to await; the   *)
(* statements of different requests interleave freely.                     *)
(*                                                                         *)
(* Time is the wall clock read in whole seconds (a stored duration of d    *)
(* stands for 1000 * d ms).  Money is held in cents, the two-decimal       *)
(* precision of the decimal(8,2) columns.                                  *)
(***************************************************************************)
EXTENDS Integers, Sequences, FiniteSets

\* ------------------------------------------------------------------ bounds
MaxTime == 3
MaxSessions == 2
MaxReceipts == 2
MaxStock == 2
MaxCartLen == 2
MaxItems == 1
MaxCostTicks == 5

\* ------------------------------------------------------- program constants
SecPerMinute == 60
SecPerHour == 3600
TAX_RATE == 0

TickSec == 15 * SecPerMinute

NULL == 0 - 1

\* Two request slots: every race below is between two requests in flight.
Procs == {1, 2}
ConsoleIds == {"c1"}
ConsoleArgs == ConsoleIds \cup {"c0"}
ProductIds == {"p1", "p2"}
Modes == {"1v1", "2v2"}
ConsoleStatuses == {"available", "in-use", "maintenance", "reserved"}
NoMode == "none"
SessionArgs == 1..MaxSessions
\* manualConsolePrice: absent, or an amount in cents
CartsOf(lines, maxLen) == UNION {[1..n -> lines] : n \in 0..maxLen}

VARIABLES now, consoles, sessions, products, session_items, receipts, call, last,
          paused_clock

vars == <<now, consoles, sessions, products, session_items, receipts, call, last,
          paused_clock>>

\* --------------------------------------------------------- pure functions
Max(a, b) == IF a >= b THEN a ELSE b

\* JavaScript `x || d` on a column value: a NULL column yields the default.
\* (The pg driver returns decimal columns as non-empty strings, so a stored
\* 0.00 is truthy and is kept.)
OrElse(x, d) == IF x = NULL THEN d ELSE x

\* Number.prototype.toFixed(2) of num/den dollars, as cents when num is in
\* cent-units: the nearest integer, the larger one on a tie.
ToFixed2(num, den) == (2 * num + den) \div (2 * den)

\* Math.round(ms / 60000)
RoundMinutes(sec) == (2 * sec + SecPerMinute) \div (2 * SecPerMinute)

\* endSession, lines 259-263: the paused time subtracted at end.
EndTotalPausedMsClosedOnly(row, endTime) == OrElse(row.total_paused_duration, 0)

EndTotalPausedMs(row, endTime) ==
  IF row.status = "paused" /\ row.paused_at # NULL
    THEN OrElse(row.total_paused_duration, 0) + (endTime - row.paused_at)
    ELSE OrElse(row.total_paused_duration, 0)

\* endSession, lines 269-273: the rate of the stored mode.
EndUsedRateBase(row, con) == OrElse(con.hourly_rate, 0)

EndUsedRate(row, con) ==
  LET baseRate == OrElse(con.hourly_rate, 0)
      rate2v2 == OrElse(con.hourly_rate_2v2, baseRate)
  IN  IF row.gaming_mode = "2v2" THEN rate2v2 ELSE baseRate

\* endSession, lines 256-275 and 282: final_cost in cents.
EndFinalCost(row, con, endTime) ==
  LET activeDuration == endTime - row.start_time
      finalActiveMs == activeDuration - EndTotalPausedMs(row, endTime)
  IN  ToFixed2(Max(0, finalActiveMs) * EndUsedRate(row, con), SecPerHour)

\* pauseSession line 209: the columns written by the UPDATE.
PausedRow(row, t) == [row EXCEPT !.status = "paused", !.paused_at = t]

\* resumeSession lines 230-234: the columns written by the UPDATE.
ResumedRowKeepsPausedAt(row, total) ==
  [row EXCEPT !.status = "active", !.total_paused_duration = total]

ResumedRowKeepsTotal(row, total) == [row EXCEPT !.status = "active", !.paused_at = NULL]

ResumedRow(row, total) ==
  [row EXCEPT !.status = "active", !.paused_at = NULL, !.total_paused_duration = total]

\* endSession lines 277-285: the columns written by the UPDATE, computed from
\* the row read under the lock.
EndedRowKeepsStatus(cur, row, con, endTime) ==
  [cur EXCEPT !.end_time = endTime,
              !.final_cost = EndFinalCost(row, con, endTime),
              !.paused_at = NULL,
              !.total_paused_duration = EndTotalPausedMs(row, endTime)]

EndedRow(cur, row, con, endTime) ==
  [cur EXCEPT !.status = "ended",
              !.end_time = endTime,
              !.final_cost = EndFinalCost(row, con, endTime),
              !.paused_at = NULL,
              !.total_paused_duration = EndTotalPausedMs(row, endTime)]

\* ------------------------------------------------------------ row locks
Idle == [op |-> "idle"]

\* Request slots are interchangeable: a new request takes the lowest free one.
Free(p) == call[p] = Idle /\ \A q \in Procs : q < p => call[q] # Idle

\* startSession line 162: SELECT ... FOR UPDATE waits while another
\* transaction holds the console row.
ConsoleLockFreeNoWait(p, c) == TRUE

ConsoleLockFree(p, c) ==
  ~ \E q \in Procs \ {p} :
      call[q].op = "start" /\ call[q].pc = "locked" /\ call[q].cid = c

\* endSession line 245: SELECT ... FOR UPDATE on the session row; every
\* UPDATE of that row waits for the holder as well.
SessionLockFreeNoWait(p, s) == TRUE

SessionLockFree(p, s) ==
  ~ \E q \in Procs \ {p} :
      call[q].op = "end" /\ call[q].pc = "locked" /\ call[q].sid = s

SessionExists(s) == s \in 1..Len(sessions)

Finish(p, op, result) ==
  /\ call' = [call EXCEPT ![p] = Idle]
  /\ last' = result

\* --------------------------------------------------------------- startSession
\* The request is issued while another transaction holds the console row:
\* its SELECT ... FOR UPDATE (line 162) blocks.
StartCall(p, c, mode, cap) ==
  /\ Free(p)
  /\ Len(sessions) + Cardinality({q \in Procs : call[q].op = "start"}) < cap
  /\ ~ ConsoleLockFree(p, c)
  /\ call' = [call EXCEPT ![p] = [op |-> "start", pc |-> "wait", cid |-> c, mode |-> mode]]
  /\ UNCHANGED <<now, consoles, sessions, products, session_items, receipts, last, paused_clock>>

\* lines 168-178: the rate checks of start, the 2v2 rate first and then the
\* base rate, whatever the requested mode.
StartRateCheck(con, mode) ==
  LET baseRate == OrElse(con.hourly_rate, 0)
      rate2v2 == OrElse(con.hourly_rate_2v2, 0)
  IN  IF mode = "2v2" /\ rate2v2 <= 0 THEN "UnsupportedMode"
      ELSE IF baseRate <= 0 THEN "NoValidRate"
      ELSE "ok"

\* lines 163-178: the availability check and then the rate checks.
StartCheckRatesFirst(c, mode) ==
  IF c \in DOMAIN consoles /\ StartRateCheck(consoles[c], mode) # "ok"
    THEN StartRateCheck(consoles[c], mode)
    ELSE IF c \notin DOMAIN consoles \/ consoles[c].status # "available"
      THEN "ConsoleUnavailable" ELSE "ok"

StartCheck(c, mode) ==
  IF c \notin DOMAIN consoles \/ consoles[c].status # "available"
    THEN "ConsoleUnavailable"
    ELSE StartRateCheck(consoles[c], mode)

\* lines 162-178: lock and read the console, validate.
StartLock(p, c, mode, cap) ==
  /\ IF call[p].op = "idle"
       THEN /\ Free(p)
            /\ Len(sessions) + Cardinality({q \in Procs : call[q].op = "start"}) < cap
       ELSE call[p] = [op |-> "start", pc |-> "wait", cid |-> c, mode |-> mode]
  /\ ConsoleLockFree(p, c)
  /\ IF StartCheck(c, mode) # "ok"
       THEN Finish(p, "start", StartCheck(c, mode))
       ELSE /\ call' = [call EXCEPT ![p] =
                 [op |-> "start", pc |-> "locked", cid |-> c, mode |-> mode]]
            /\ UNCHANGED last
  /\ UNCHANGED <<now, consoles, sessions, products, session_items, receipts, paused_clock>>

\* lines 186-203: mark the console in-use, insert the session, commit.
StartCommit(p) ==
  /\ call[p].op = "start" /\ call[p].pc = "locked"
  /\ consoles' = [consoles EXCEPT ![call[p].cid].status = "in-use"]
  /\ sessions' = Append(sessions,
        [console_id |-> call[p].cid, status |-> "active",
         gaming_mode |-> call[p].mode, start_time |-> now, end_time |-> NULL,
         paused_at |-> NULL, total_paused_duration |-> 0, final_cost |-> NULL])
  /\ Finish(p, "start", "ok")
  /\ UNCHANGED <<now, products, session_items, receipts, paused_clock>>

\* --------------------------------------------------------------- pauseSession
\* lines 207-215: one UPDATE guarded by status = 'active', then a re-read
\* that only fails when the session row does not exist.
PauseSession(p, s) ==
  /\ Free(p)
  /\ SessionLockFree(p, s)
  /\ IF SessionExists(s)
       THEN /\ sessions' = IF sessions[s].status = "active"
                             THEN [sessions EXCEPT ![s] = PausedRow(@, now)]
                             ELSE sessions
            /\ Finish(p, "pause", "ok")
       ELSE /\ UNCHANGED sessions
            /\ Finish(p, "pause", "NotFound")
  /\ UNCHANGED <<now, consoles, products, session_items, receipts, paused_clock>>

\* -------------------------------------------------------------- resumeSession
\* lines 219-226: plain read of the paused row, then the new total.
ResumeRead(p, s) ==
  /\ Free(p)
  /\ IF SessionExists(s) /\ sessions[s].status = "paused" /\ sessions[s].paused_at # NULL
       THEN /\ call' = [call EXCEPT ![p] =
                 [op |-> "resume", pc |-> "write", sid |-> s,
                  val |-> OrElse(sessions[s].total_paused_duration, 0)
                            + (now - sessions[s].paused_at)]]
            /\ UNCHANGED last
       ELSE Finish(p, "resume", "InvalidTransition")
  /\ UNCHANGED <<now, consoles, sessions, products, session_items, receipts, paused_clock>>

\* lines 228-239: UPDATE by id alone, whatever the row's status is now.
ResumeWrite(p) ==
  /\ call[p].op = "resume" /\ call[p].pc = "write"
  /\ SessionLockFree(p, call[p].sid)
  /\ sessions' = [sessions EXCEPT ![call[p].sid] = ResumedRow(@, call[p].val)]
  /\ Finish(p, "resume", "ok")
  /\ UNCHANGED <<now, consoles, products, session_items, receipts, paused_clock>>

\* ----------------------------------------------------------------- endSession
\* The request is issued while another transaction holds the session row:
\* its SELECT ... FOR UPDATE (line 245) blocks.
EndCall(p, s) ==
  /\ Free(p)
  /\ ~ SessionLockFree(p, s)
  /\ call' = [call EXCEPT ![p] = [op |-> "end", pc |-> "wait", sid |-> s]]
  /\ UNCHANGED <<now, consoles, sessions, products, session_items, receipts, last, paused_clock>>

\* lines 245-249: lock and read the session row, reject a missing or ended one.
EndLock(p, s) ==
  /\ IF call[p].op = "idle"
       THEN Free(p)
       ELSE call[p] = [op |-> "end", pc |-> "wait", sid |-> s]
  /\ SessionLockFree(p, s)
  /\ IF ~ SessionExists(s)
       THEN Finish(p, "end", "AlreadyEnded")
       ELSE IF sessions[s].status = "ended"
         THEN Finish(p, "end", "AlreadyEnded")
         ELSE /\ call' = [call EXCEPT ![p] =
                   [op |-> "end", pc |-> "locked", sid |-> s, row |-> sessions[s]]]
              /\ UNCHANGED last
  /\ UNCHANGED <<now, consoles, sessions, products, session_items, receipts, paused_clock>>

\* lines 251-296 without the UPDATE of the console (line 288)
EndCommitKeepsConsole(p) ==
  /\ call[p].op = "end" /\ call[p].pc = "locked"
  /\ LET s == call[p].sid
         row == call[p].row
         c == row.console_id
     IN  IF c \notin DOMAIN consoles
           THEN /\ Finish(p, "end", "ConsoleNotFound")
                /\ UNCHANGED <<consoles, sessions>>
           ELSE /\ ConsoleLockFree(p, c)
                /\ sessions' = [sessions EXCEPT ![s] = EndedRow(@, row, consoles[c], now)]
                /\ UNCHANGED consoles
                /\ Finish(p, "end", "ok")
  /\ UNCHANGED <<now, products, session_items, receipts, paused_clock>>

\* lines 251-296: read the console, compute, write session and console, commit.
EndCommit(p) ==
  /\ call[p].op = "end" /\ call[p].pc = "locked"
  /\ LET s == call[p].sid
         row == call[p].row
         c == row.console_id
     IN  IF c \notin DOMAIN consoles
           THEN /\ Finish(p, "end", "ConsoleNotFound")
                /\ UNCHANGED <<consoles, sessions>>
           ELSE /\ ConsoleLockFree(p, c)
                /\ sessions' = [sessions EXCEPT ![s] = EndedRow(@, row, consoles[c], now)]
                /\ consoles' = [consoles EXCEPT ![c].status = "available"]
                /\ Finish(p, "end", "ok")
  /\ UNCHANGED <<now, products, session_items, receipts, paused_clock>>

\* ----------------------------------------------------- updateSessionGamingMode
\* lines 337-343: the rate check of a mode change: the 2v2 rate only.
ModeRateCheck(con, mode) ==
  IF mode = "2v2" /\ OrElse(con.hourly_rate_2v2, 0) <= 0 THEN "UnsupportedMode" ELSE "ok"

\* lines 323-343: plain read of session joined with console, validate.
ModeCheck(s, mode) ==
  IF ~ SessionExists(s) THEN "NotFound"
  ELSE IF sessions[s].console_id \notin DOMAIN consoles THEN "NotFound"
  ELSE IF sessions[s].status = "ended" THEN "InvalidTransition"
  ELSE ModeRateCheck(consoles[sessions[s].console_id], mode)

ModeRead(p, s, mode) ==
  /\ Free(p)
  /\ IF ModeCheck(s, mode) # "ok"
       THEN Finish(p, "mode", ModeCheck(s, mode))
       ELSE /\ call' = [call EXCEPT ![p] =
                 [op |-> "mode", pc |-> "write", sid |-> s, mode |-> mode]]
            /\ UNCHANGED last
  /\ UNCHANGED <<now, consoles, sessions, products, session_items, receipts, paused_clock>>

\* lines 345-353: UPDATE gaming_mode by id alone, commit.
ModeWrite(p) ==
  /\ call[p].op = "mode" /\ call[p].pc = "write"
  /\ SessionLockFree(p, call[p].sid)
  /\ sessions' = [sessions EXCEPT ![call[p].sid].gaming_mode = call[p].mode]
  /\ Finish(p, "mode", "ok")
  /\ UNCHANGED <<now, consoles, products, session_items, receipts, paused_clock>>

\* ----------------------------------------------------------- addItemToSession
\* A product row is locked by a checkout transaction from the SELECT ... FOR
\* UPDATE of a cart line (checkoutService line 120) until the transaction ends.
ProductLockFreeNoWait(p, pid) == TRUE

ProductLockFree(p, pid) ==
  ~ \E q \in Procs \ {p} :
      /\ call[q].op = "checkout"
      /\ \E i \in 1..Len(call[q].lines) : call[q].lines[i].product_id = pid

\* lines 458-469: plain reads of session and product, validate.
AddCheckIgnoresEnded(s, pid, q) ==
  IF ~ SessionExists(s) THEN "SessionNotActive"
  ELSE IF pid \notin DOMAIN products THEN "ProductNotFound"
  ELSE IF products[pid].stock < q THEN "InsufficientStock"
  ELSE "ok"

AddCheck(s, pid, q) ==
  IF ~ SessionExists(s) THEN "SessionNotActive"
  ELSE IF sessions[s].status = "ended" THEN "SessionNotActive"
  ELSE IF pid \notin DOMAIN products THEN "ProductNotFound"
  ELSE IF products[pid].stock < q THEN "InsufficientStock"
  ELSE "ok"

AddRead(p, s, pid, q) ==
  /\ Free(p)
  /\ Len(session_items) + Cardinality({r \in Procs : call[r].op = "add"}) < MaxItems
  /\ IF AddCheck(s, pid, q) # "ok"
       THEN Finish(p, "add", AddCheck(s, pid, q))
       ELSE /\ call' = [call EXCEPT ![p] =
                 [op |-> "add", pc |-> "write", sid |-> s, pid |-> pid,
                  quantity |-> q, price |-> products[pid].price]]
            /\ UNCHANGED last
  /\ UNCHANGED <<now, consoles, sessions, products, session_items, receipts, paused_clock>>

\* lines 475-486: the tab line inserted.
SessionItemRowFlatSubtotal(sid, pid, q, price) ==
  [session_id |-> sid, product_id |-> pid, quantity |-> q, unit_price |-> price,
   subtotal |-> price]

SessionItemRow(sid, pid, q, price) ==
  [session_id |-> sid, product_id |-> pid, quantity |-> q, unit_price |-> price,
   subtotal |-> price * q]

\* lines 472-499 without the decrement of line 472
AddWriteKeepsStock(p) ==
  /\ call[p].op = "add" /\ call[p].pc = "write"
  /\ ProductLockFree(p, call[p].pid)
  /\ session_items' = Append(session_items,
        SessionItemRow(call[p].sid, call[p].pid, call[p].quantity, call[p].price))
  /\ Finish(p, "add", "ok")
  /\ UNCHANGED <<now, consoles, sessions, products, receipts, paused_clock>>

\* lines 472-499: relative decrement of the stock, insert the tab line, commit.
AddWrite(p) ==
  /\ call[p].op = "add" /\ call[p].pc = "write"
  /\ ProductLockFree(p, call[p].pid)
  /\ products' = [products EXCEPT ![call[p].pid].stock = @ - call[p].quantity]
  /\ session_items' = Append(session_items,
        SessionItemRow(call[p].sid, call[p].pid, call[p].quantity, call[p].price))
  /\ Finish(p, "add", "ok")
  /\ UNCHANGED <<now, consoles, sessions, receipts, paused_clock>>

\* The request handler (part_002 lines 191-212): a missing productId or a
\* falsy quantity (0) is answered 400 before the service is called.
AddItemHandler(p, s, pid, q) ==
  IF q = 0
    THEN /\ Free(p)
         /\ Finish(p, "add", "BadRequest")
         /\ UNCHANGED <<now, consoles, sessions, products, session_items, receipts,
                        paused_clock>>
    ELSE AddRead(p, s, pid, q)

\* an updateProduct that also reprices the receipt lines of the product
UpdateProductRepricesLines(p, pid, price) ==
  /\ Free(p)
  /\ ProductLockFree(p, pid)
  /\ IF pid \notin DOMAIN products
       THEN /\ Finish(p, "product", "NotFound")
            /\ UNCHANGED <<products, receipts>>
       ELSE /\ products' = [products EXCEPT ![pid].price = price]
            /\ receipts' = [i \in 1..Len(receipts) |->
                 [receipts[i] EXCEPT !.items = [j \in 1..Len(@) |->
                    IF @[j].product_id = pid
                      THEN [@[j] EXCEPT !.unit_price = price] ELSE @[j]]]]
            /\ Finish(p, "product", "ok")
  /\ UNCHANGED <<now, consoles, sessions, session_items, paused_clock>>

\* -------------------------------------------------------------- updateProduct
\* productService lines 42-48: one UPDATE of the catalog row (here its price),
\* which waits for a transaction holding the row.
UpdateProduct(p, pid, price) ==
  /\ Free(p)
  /\ ProductLockFree(p, pid)
  /\ IF pid \notin DOMAIN products
       THEN /\ Finish(p, "product", "NotFound")
            /\ UNCHANGED products
       ELSE /\ products' = [products EXCEPT ![pid].price = price]
            /\ Finish(p, "product", "ok")
  /\ UNCHANGED <<now, consoles, sessions, session_items, receipts, paused_clock>>

\* productService lines 42-48 again, with a new name as the productData.
RenameProduct(p, pid, name) ==
  /\ Free(p)
  /\ ProductLockFree(p, pid)
  /\ IF pid \notin DOMAIN products
       THEN /\ Finish(p, "product", "NotFound")
            /\ UNCHANGED products
       ELSE /\ products' = [products EXCEPT ![pid].name = name]
            /\ Finish(p, "product", "ok")
  /\ UNCHANGED <<now, consoles, sessions, session_items, receipts, paused_clock>>

\* ------------------------------------------------------------ processCheckout
RECURSIVE SumQty(_, _)
\* units of product pid on the receipt lines built so far
SumQty(lines, pid) ==
  IF lines = <<>> THEN 0
  ELSE (IF lines[1].product_id = pid THEN lines[1].quantity ELSE 0)
         + SumQty(Tail(lines), pid)

\* the sum of lines 128-138 cut short after the first cart line
SumSubtotalFirstLine(lines) == IF lines = <<>> THEN 0 ELSE lines[1].subtotal

RECURSIVE SumSubtotal(_)
SumSubtotal(lines) ==
  IF lines = <<>> THEN 0 ELSE lines[1].subtotal + SumSubtotal(Tail(lines))

\* lines 81-84: the rates snapshot of the receipt (1.5 x base when no 2v2 rate).
CheckoutRate2v2(con) ==
  OrElse(con.hourly_rate_2v2, (OrElse(con.hourly_rate, 0) * 3) \div 2)

\* lines 86-89 with a truthiness test of the override
ChargedPriceFalsyOverride(manual, calculated) ==
  IF manual # NULL /\ manual # 0 THEN manual ELSE calculated

\* lines 86-89
ChargedPrice(manual, calculated) == IF manual # NULL THEN manual ELSE calculated

\* the session part without the test of line 69
CheckoutCheckAnyStatus(sid, manual) ==
  IF ~ SessionExists(sid) THEN "SessionNotFound"
  ELSE IF \E i \in 1..Len(receipts) : receipts[i].session_id = sid
    THEN "DuplicateCheckout"
  ELSE IF sessions[sid].final_cost = NULL THEN "CostNotCalculated"
  ELSE IF sessions[sid].console_id \notin DOMAIN consoles THEN "ConsoleNotFound"
  ELSE IF ChargedPrice(manual, sessions[sid].final_cost) < 0 THEN "NegativePrice"
  ELSE "ok"

\* the session part without the test of lines 71-72
CheckoutCheckNoReceiptLookup(sid, manual) ==
  IF ~ SessionExists(sid) THEN "SessionNotFound"
  ELSE IF sessions[sid].status # "ended" THEN "SessionNotEnded"
  ELSE IF sessions[sid].final_cost = NULL THEN "CostNotCalculated"
  ELSE IF sessions[sid].console_id \notin DOMAIN consoles THEN "ConsoleNotFound"
  ELSE IF ChargedPrice(manual, sessions[sid].final_cost) < 0 THEN "NegativePrice"
  ELSE "ok"

\* the session part without the test of line 91
CheckoutCheckAnyPrice(sid, manual) ==
  IF ~ SessionExists(sid) THEN "SessionNotFound"
  ELSE IF sessions[sid].status # "ended" THEN "SessionNotEnded"
  ELSE IF \E i \in 1..Len(receipts) : receipts[i].session_id = sid
    THEN "DuplicateCheckout"
  ELSE IF sessions[sid].final_cost = NULL THEN "CostNotCalculated"
  ELSE IF sessions[sid].console_id \notin DOMAIN consoles THEN "ConsoleNotFound"
  ELSE "ok"

\* lines 65-93: what the session part answers for a sessionId that is given;
\* the first failing test wins, and all of them precede the cart loop.
CheckoutCheck(sid, manual) ==
  IF ~ SessionExists(sid) THEN "SessionNotFound"
  ELSE IF sessions[sid].status # "ended" THEN "SessionNotEnded"
  ELSE IF \E i \in 1..Len(receipts) : receipts[i].session_id = sid
    THEN "DuplicateCheckout"
  ELSE IF sessions[sid].final_cost = NULL THEN "CostNotCalculated"
  ELSE IF sessions[sid].console_id \notin DOMAIN consoles THEN "ConsoleNotFound"
  ELSE IF ChargedPrice(manual, sessions[sid].final_cost) < 0 THEN "NegativePrice"
  ELSE "ok"

\* lines 65-111: the session part, all of it before the cart is touched.
\* (Without a sessionId the override is never read again, line 153.)
CheckoutStart(p, cart, sid, manual) ==
  /\ Free(p)
  /\ Len(receipts) + Cardinality({r \in Procs : call[r].op = "checkout"}) < MaxReceipts
  /\ IF sid = NULL
       THEN /\ call' = [call EXCEPT ![p] =
                 [op |-> "checkout", cart |-> cart, sid |-> NULL, manual |-> NULL,
                  lines |-> <<>>, calculated |-> 0, charged |-> 0, mode |-> "1v1",
                  base |-> 0, rate2v2 |-> 0, used |-> 0, duration |-> 0]]
            /\ UNCHANGED last
       ELSE IF CheckoutCheck(sid, manual) # "ok"
         THEN Finish(p, "checkout", CheckoutCheck(sid, manual))
         ELSE
           LET ses == sessions[sid]
               con == consoles[ses.console_id]
               base == OrElse(con.hourly_rate, 0)
               r2 == CheckoutRate2v2(con)
           IN  /\ call' = [call EXCEPT ![p] =
                    [op |-> "checkout", cart |-> cart, sid |-> sid,
                     manual |-> manual, lines |-> <<>>,
                     calculated |-> ses.final_cost,
                     charged |-> ChargedPrice(manual, ses.final_cost),
                     mode |-> ses.gaming_mode, base |-> base, rate2v2 |-> r2,
                     used |-> IF ses.gaming_mode = "2v2" THEN r2 ELSE base,
                     duration |-> RoundMinutes(ses.end_time - ses.start_time
                                    - OrElse(ses.total_paused_duration, 0))]]
               /\ UNCHANGED last
  /\ UNCHANGED <<now, consoles, sessions, products, session_items, receipts, paused_clock>>

\* A transaction that throws is rolled back: none of its stock decrements
\* reaches the committed rows (db.transaction, line 46).
RollbackKeepsWrites(p) ==
  products' = [i \in DOMAIN products |->
                 [products[i] EXCEPT !.stock = @ - SumQty(call[p].lines, i)]]

Rollback(p) == products' = products

\* line 120: the stock a checkout reads inside its transaction, its own
\* earlier decrements (line 128) included.
StockSeenCommitted(p, pid) == products[pid].stock

StockSeen(p, pid) == products[pid].stock - SumQty(call[p].lines, pid)

\* lines 119-139: one cart line: lock the product row, check the stock this
\* transaction sees (its own earlier decrements included), decrement, record.
CheckoutItem(p) ==
  /\ call[p].op = "checkout"
  /\ Len(call[p].lines) < Len(call[p].cart)
  /\ LET item == call[p].cart[Len(call[p].lines) + 1]
         pid == item.productId
     IN  IF pid \notin DOMAIN products
           THEN /\ Rollback(p)
                /\ Finish(p, "checkout", "ProductNotFound")
           ELSE /\ ProductLockFree(p, pid)
                /\ IF StockSeen(p, pid) < item.quantity
                     THEN /\ Rollback(p)
                          /\ Finish(p, "checkout", "InsufficientStock")
                     ELSE /\ call' = [call EXCEPT ![p].lines = Append(@,
                               [product_id |-> pid, product_name |-> products[pid].name,
                                quantity |-> item.quantity,
                                unit_price |-> products[pid].price,
                                subtotal |-> products[pid].price * item.quantity])]
                          /\ UNCHANGED <<products, last>>
  /\ UNCHANGED <<now, consoles, sessions, session_items, receipts, paused_clock>>

\* The product row checkout p asks for next (line 121), or "none".
NextProduct(p) ==
  IF call[p].op = "checkout" /\ Len(call[p].lines) < Len(call[p].cart)
    THEN call[p].cart[Len(call[p].lines) + 1].productId
    ELSE "none"

\* a server that never looks for a cycle of waiting transactions
CheckoutDeadlockUndetected(p) == FALSE /\ UNCHANGED vars

\* line 120 under PostgreSQL: two checkouts that each wait for a product
\* row the other has locked form a cycle; the server aborts one of them, its
\* query throws and the transaction is rolled back.
CheckoutDeadlock(p) ==
  /\ call[p].op = "checkout"
  /\ \E q \in Procs \ {p} :
        /\ call[q].op = "checkout"
        /\ NextProduct(p) \in DOMAIN products
        /\ NextProduct(q) \in DOMAIN products
        /\ SumQty(call[q].lines, NextProduct(p)) > 0
        /\ SumQty(call[p].lines, NextProduct(q)) > 0
  /\ Rollback(p)
  /\ Finish(p, "checkout", "Deadlock")
  /\ UNCHANGED <<now, consoles, sessions, session_items, receipts, paused_clock>>

\* lines 141-207: totals, insert the receipt and its lines, commit.
CheckoutCommit(p) ==
  /\ call[p].op = "checkout"
  /\ Len(call[p].lines) = Len(call[p].cart)
  /\ LET k == call[p]
         subtotal == k.charged + SumSubtotal(k.lines)
         tax == subtotal * TAX_RATE
         hasSession == k.sid # NULL
     IN  receipts' = Append(receipts,
           [session_id |-> k.sid,
            subtotal |-> subtotal, tax |-> tax, total |-> subtotal + tax,
            manual_console_price |->
               IF hasSession /\ k.manual # NULL THEN k.charged ELSE NULL,
            calculated_console_price |-> IF hasSession THEN k.calculated ELSE NULL,
            gaming_mode |-> IF hasSession THEN k.mode ELSE NoMode,
            base_hourly_rate |-> IF hasSession THEN k.base ELSE NULL,
            hourly_rate_2v2 |-> IF hasSession THEN k.rate2v2 ELSE NULL,
            charged |-> IF hasSession THEN k.charged ELSE NULL,
            duration |-> IF hasSession THEN k.duration ELSE NULL,
            rate |-> IF hasSession THEN k.used ELSE NULL,
            items |-> k.lines])
  /\ products' = [i \in DOMAIN products |->
                    [products[i] EXCEPT !.stock = @ - SumQty(call[p].lines, i)]]
  /\ Finish(p, "checkout", "ok")
  /\ UNCHANGED <<now, consoles, sessions, session_items, paused_clock>>

\* ----------------------------------------------------------- console registry
\* consoleService lines 244-281: validate the status, look the console up,
\* one UPDATE of its status (which waits for a transaction holding the row).
UpdateConsoleStatus(p, c, status) ==
  /\ Free(p)
  /\ ConsoleLockFree(p, c)
  /\ IF status \notin ConsoleStatuses
       THEN /\ Finish(p, "status", "InvalidStatus")
            /\ UNCHANGED consoles
       ELSE IF c \notin DOMAIN consoles
         THEN /\ Finish(p, "status", "NotFound")
              /\ UNCHANGED consoles
         ELSE /\ consoles' = [consoles EXCEPT ![c].status = status]
              /\ Finish(p, "status", "ok")
  /\ UNCHANGED <<now, sessions, products, session_items, receipts, paused_clock>>

\* consoleService lines 308-353: a negative rate is rejected, a rate that is
\* not given (NULL here) is left as it is, one UPDATE of the rates given.
UpdateConsoleRates(p, c, hourlyRate, hourlyRate2v2) ==
  /\ Free(p)
  /\ ConsoleLockFree(p, c)
  /\ IF (hourlyRate # NULL /\ hourlyRate < 0) \/ (hourlyRate2v2 # NULL /\ hourlyRate2v2 < 0)
       THEN /\ Finish(p, "rates", "NegativeRate")
            /\ UNCHANGED consoles
       ELSE IF c \notin DOMAIN consoles
         THEN /\ Finish(p, "rates", "NotFound")
              /\ UNCHANGED consoles
         ELSE /\ consoles' = [consoles EXCEPT
                     ![c].hourly_rate = IF hourlyRate # NULL THEN hourlyRate ELSE @,
                     ![c].hourly_rate_2v2 = IF hourlyRate2v2 # NULL THEN hourlyRate2v2 ELSE @]
              /\ Finish(p, "rates", "ok")
  /\ UNCHANGED <<now, sessions, products, session_items, receipts, paused_clock>>

\* consoleService lines 163-218 (updateConsole) for a body that carries
\* hourlyRate2v2: a negative number fails the validation, anything else is
\* written to the column as it is, a JSON null (NULL here) included.
UpdateConsole(p, c, hourlyRate2v2) ==
  /\ Free(p)
  /\ ConsoleLockFree(p, c)
  /\ IF hourlyRate2v2 # NULL /\ hourlyRate2v2 < 0
       THEN /\ Finish(p, "console", "ValidationFailed")
            /\ UNCHANGED consoles
       ELSE IF c \notin DOMAIN consoles
         THEN /\ Finish(p, "console", "NotFound")
              /\ UNCHANGED consoles
         ELSE /\ consoles' = [consoles EXCEPT ![c].hourly_rate_2v2 = hourlyRate2v2]
              /\ Finish(p, "console", "ok")
  /\ UNCHANGED <<now, sessions, products, session_items, receipts, paused_clock>>

\* part_002 lines 301-330 with consoleService lines 163-218: the handler of
\* PUT /consoles/:id moves a numeric hourlyRate of the body to hourly_rate
\* before it calls updateConsole, whose validation looks at hourlyRate only;
\* the number is written to the column whatever its sign.
UpdateConsoleHandler(p, c, hourlyRate) ==
  /\ Free(p)
  /\ ConsoleLockFree(p, c)
  /\ IF c \notin DOMAIN consoles
       THEN /\ Finish(p, "console", "NotFound")
            /\ UNCHANGED consoles
       ELSE /\ consoles' = [consoles EXCEPT ![c].hourly_rate = hourlyRate]
            /\ Finish(p, "console", "ok")
  /\ UNCHANGED <<now, sessions, products, session_items, receipts, paused_clock>>

\* ------------------------------------------------------ getSessionCostPreview
\* lines 418-430: the active time at currentTime, an open pause left out.
PreviewActiveMs(row, currentTime) ==
  LET totalDurationMs ==
        IF row.status = "paused" /\ row.paused_at # NULL
          THEN row.paused_at - row.start_time
          ELSE currentTime - row.start_time
  IN  Max(0, totalDurationMs - OrElse(row.total_paused_duration, 0))

\* lines 434-435: the two rates of the preview.
PreviewRate(con, mode) ==
  LET baseRate == OrElse(con.hourly_rate, 0)
      rate2v2 == OrElse(con.hourly_rate_2v2, (baseRate * 3) \div 2)
  IN  IF mode = "2v2" THEN rate2v2 ELSE baseRate

\* lines 437-442: the cost reported for a mode, in cents.
PreviewCost(row, con, currentTime, mode) ==
  ToFixed2(PreviewActiveMs(row, currentTime) * PreviewRate(con, mode), SecPerHour)

\* lines 399-449: one joined read of the session and its console's rates, no
\* write; the answer is held in the call record until it is sent.
GetSessionCostPreview(p, s) ==
  /\ Free(p)
  /\ IF ~ SessionExists(s) \/ (SessionExists(s) /\ sessions[s].console_id \notin DOMAIN consoles)
       THEN Finish(p, "preview", "NotFound")
       ELSE IF sessions[s].status = "ended"
         THEN Finish(p, "preview", "AlreadyEnded")
         ELSE LET row == sessions[s]
                  con == consoles[row.console_id]
              IN  /\ call' = [call EXCEPT ![p] =
                       [op |-> "preview", sid |-> s,
                        currentCost1v1 |-> PreviewCost(row, con, now, "1v1"),
                        currentCost2v2 |-> PreviewCost(row, con, now, "2v2"),
                        duration |-> RoundMinutes(PreviewActiveMs(row, now)),
                        base |-> PreviewRate(con, "1v1"),
                        rate2v2 |-> PreviewRate(con, "2v2")]]
                  /\ UNCHANGED last
  /\ UNCHANGED <<now, consoles, sessions, products, session_items, receipts, paused_clock>>

\* part_002 lines 181-185: the handler sends the answer.
PreviewReturn(p) ==
  /\ call[p].op = "preview"
  /\ Finish(p, "preview", "ok")
  /\ UNCHANGED <<now, consoles, sessions, products, session_items, receipts, paused_clock>>

\* ---------------------------------------------------------------------- clock
\* The wall clock advances; paused_clock measures, per session, the time its
\* stored status has been 'paused' (an observer's stopwatch, not program state).
Tick(step, bound, observed) ==
  /\ now + step <= bound
  /\ now' = now + step
  /\ paused_clock' =
       IF observed
         THEN [s \in SessionArgs |->
                 IF SessionExists(s) /\ sessions[s].status = "paused"
                   THEN paused_clock[s] + step ELSE paused_clock[s]]
         ELSE paused_clock
  /\ UNCHANGED <<consoles, sessions, products, session_items, receipts, call, last>>

\* ------------------------------------------------------------- specifications
\* Consoles as seeded (seeds/initial_data.ts: hourly_rate 8, no 2v2 rate) or
\* as created by createConsole with both rates.
InitWith(rates2v2, stock) ==
  /\ now = 0
  /\ \E r \in rates2v2 :
       consoles = [c \in ConsoleIds |->
                     [status |-> "available", hourly_rate |-> 800, hourly_rate_2v2 |-> r]]
  /\ sessions = <<>>
  /\ products = [i \in ProductIds |-> [stock |-> stock[i], price |-> 250, name |-> "cola"]]
  /\ session_items = <<>>
  /\ receipts = <<>>
  /\ call = [p \in Procs |-> Idle]
  /\ last = "none"
  /\ paused_clock = [s \in SessionArgs |-> 0]

ShopStock == [i \in ProductIds |-> IF i = "p1" THEN MaxStock ELSE 1]

SessionOps(P, S, cap) ==
  \/ \E p \in P, c \in ConsoleArgs, m \in Modes : StartLock(p, c, m, cap)
  \/ \E p \in P : StartCommit(p)
  \/ \E p \in P, s \in S : PauseSession(p, s)
  \/ \E p \in P, s \in S : ResumeRead(p, s)
  \/ \E p \in P : ResumeWrite(p)
  \/ \E p \in P, s \in S : EndCall(p, s)
  \/ \E p \in P, s \in S : EndLock(p, s)
  \/ \E p \in P : EndCommit(p)
  \/ \E p \in P, s \in S, m \in Modes : ModeRead(p, s, m)
  \/ \E p \in P : ModeWrite(p)

\* The timed life of one session: every operation that writes a session or
\* console row, two requests in flight, under a running clock.
Init == InitWith({1200}, ShopStock)

Next ==
  \/ SessionOps(Procs, {1}, 1)
  \/ Tick(TickSec, MaxTime * TickSec, FALSE)

Spec == Init /\ [][Next]_vars

\* The timed life of one session with its scheduling: the requests that
\* start, pause, resume and switch the session come one at a time, an end can
\* be called beside any of them, and the server runs every request in flight
\* to its end; end calls are weakly fair.
NextEnd ==
  \/ \E c \in ConsoleArgs, m \in Modes : StartLock(1, c, m, 1)
  \/ StartCommit(1)
  \/ PauseSession(1, 1)
  \/ ResumeRead(1, 1)
  \/ ResumeWrite(1)
  \/ \E m \in Modes : ModeRead(1, 1, m)
  \/ ModeWrite(1)
  \/ \E p \in Procs : EndCall(p, 1)
  \/ \E p \in Procs : EndLock(p, 1)
  \/ \E p \in Procs : EndCommit(p)
  \/ Tick(TickSec, MaxTime * TickSec, FALSE)

FairEnd ==
  /\ WF_vars(StartCommit(1))
  /\ WF_vars(ResumeWrite(1))
  /\ WF_vars(ModeWrite(1))
  /\ WF_vars(\E p \in Procs : EndCall(p, 1) \/ EndLock(p, 1))
  /\ \A p \in Procs : WF_vars(EndCommit(p))

SpecEndLive == Init /\ [][NextEnd]_vars /\ FairEnd

\* Successive sessions on one console, with or without a 2v2 rate; the clock
\* stands still.
InitConsole == InitWith({NULL, 1200}, ShopStock)

NextConsole ==
  \/ \E p \in Procs, c \in ConsoleArgs, m \in Modes : StartCall(p, c, m, MaxSessions)
  \/ SessionOps(Procs, SessionArgs, MaxSessions)

SpecConsole == InitConsole /\ [][NextConsole]_vars

\* Sessions on a console whose status and rates the registry changes at will;
\* the clock stands still.
InitStart == InitWith({NULL, 1200}, ShopStock)

StatusArgs == ConsoleStatuses \cup {"broken"}

RateArgs1v1 == {NULL, 0 - 100, 0, 800}

RateArgs2v2 == {NULL, 0, 1200}

NextStart ==
  \/ \E p \in Procs, c \in ConsoleArgs, m \in Modes : StartCall(p, c, m, MaxSessions)
  \/ \E p \in Procs, c \in ConsoleArgs, m \in Modes : StartLock(p, c, m, MaxSessions)
  \/ \E p \in Procs : StartCommit(p)
  \/ \E p \in Procs, s \in SessionArgs : EndCall(p, s)
  \/ \E p \in Procs, s \in SessionArgs : EndLock(p, s)
  \/ \E p \in Procs : EndCommit(p)
  \/ \E p \in Procs, s \in SessionArgs, m \in Modes : ModeRead(p, s, m)
  \/ \E p \in Procs : ModeWrite(p)
  \/ \E p \in Procs, c \in ConsoleArgs, st \in StatusArgs : UpdateConsoleStatus(p, c, st)
  \/ \E p \in Procs, c \in ConsoleArgs, r \in RateArgs1v1, q \in RateArgs2v2 :
        UpdateConsoleRates(p, c, r, q)

SpecStart == InitStart /\ [][NextStart]_vars

\* The billing engine: two requests in flight over a catalog of two products
\* and a session that is started and ended while they run.
InitShop == InitWith({1200}, ShopStock)

ShopLines ==
  {[productId |-> "p1", quantity |-> 1], [productId |-> "p1", quantity |-> MaxStock],
   [productId |-> "p2", quantity |-> 1], [productId |-> "p0", quantity |-> 1]}

ShopManual == {NULL, 0 - 100, 500}

NextShop ==
  \/ \E p \in Procs : StartLock(p, "c1", "1v1", 1)
  \/ \E p \in Procs : StartCommit(p)
  \/ \E p \in Procs : EndLock(p, 1)
  \/ \E p \in Procs : EndCommit(p)
  \/ \E p \in Procs : AddRead(p, 1, "p1", 1)
  \/ \E p \in Procs : AddWrite(p)
  \/ \E p \in Procs, cart \in CartsOf(ShopLines, MaxCartLen), sid \in {NULL, 1}, m \in ShopManual :
        CheckoutStart(p, cart, sid, m)
  \/ \E p \in Procs : CheckoutItem(p)
  \/ \E p \in Procs : CheckoutDeadlock(p)
  \/ \E p \in Procs : CheckoutCommit(p)

SpecShop == InitShop /\ [][NextShop]_vars

\* One request at a time, each completing within one clock reading; the clock
\* advances between requests by 7 or 15 minutes.
InitCost == InitWith({NULL, 1200}, ShopStock)

CostSteps == {7 * SecPerMinute, 15 * SecPerMinute}

NextCost ==
  \/ \E c \in ConsoleArgs, m \in Modes : StartLock(1, c, m, 1)
  \/ StartCommit(1)
  \/ PauseSession(1, 1)
  \/ ResumeRead(1, 1)
  \/ ResumeWrite(1)
  \/ EndLock(1, 1)
  \/ EndCommit(1)
  \/ \E m \in Modes : ModeRead(1, 1, m)
  \/ ModeWrite(1)
  \/ \E d \in CostSteps :
        /\ \A p \in Procs : call[p] = Idle
        /\ Tick(d, MaxCostTicks * TickSec, TRUE)

SpecCost == InitCost /\ [][NextCost]_vars

\* The running tab: items are added to a session that is started, paused and
\* ended meanwhile, over the seeded catalog whose prices change; two requests
\* in flight, the clock stands still.
TabStock == [i \in ProductIds |-> IF i = "p1" THEN 45 ELSE 1]

InitTab == InitWith({1200}, TabStock)

TabProducts == ProductIds \cup {"p0"}

TabQuantities == {0 - 1, 0, 1, 3}

TabPrices == {250, 300}

NextTab ==
  \/ \E p \in Procs : StartLock(p, "c1", "1v1", 1)
  \/ \E p \in Procs : StartCommit(p)
  \/ \E p \in Procs : PauseSession(p, 1)
  \/ \E p \in Procs : EndLock(p, 1)
  \/ \E p \in Procs : EndCommit(p)
  \/ \E p \in Procs, s \in SessionArgs, pid \in TabProducts, q \in TabQuantities :
        AddItemHandler(p, s, pid, q)
  \/ \E p \in Procs : AddWrite(p)
  \/ \E p \in Procs, price \in TabPrices : UpdateProduct(p, "p1", price)

SpecTab == InitTab /\ [][NextTab]_vars

\* One session started in 1v1 on a console with both rates, whose mode is
\* changed while it runs; one request at a time under the running clock.
InitMode == InitWith({1200}, ShopStock)

NextMode ==
  \/ StartLock(1, "c1", "1v1", 1)
  \/ StartCommit(1)
  \/ PauseSession(1, 1)
  \/ ResumeRead(1, 1)
  \/ ResumeWrite(1)
  \/ EndLock(1, 1)
  \/ EndCommit(1)
  \/ \E m \in Modes : ModeRead(1, 1, m)
  \/ ModeWrite(1)
  \/ \E d \in CostSteps :
        /\ \A p \in Procs : call[p] = Idle
        /\ Tick(d, MaxCostTicks * TickSec, TRUE)

SpecMode == InitMode /\ [][NextMode]_vars

\* The till: one request at a time checks out a session that was started,
\* paused and ended, with or without an override and a cart, while a price
\* of the catalog changes between requests; the clock runs while the session
\* is being played (nothing reads it at any other time).
InitBill == InitWith({1200}, ShopStock)

BillLines == {[productId |-> "p1", quantity |-> 1], [productId |-> "p2", quantity |-> 1]}

BillManual == {NULL, 0 - 100, 0, 500}

NextBill ==
  \/ \E m \in Modes : StartLock(1, "c1", m, 1)
  \/ StartCommit(1)
  \/ PauseSession(1, 1)
  \/ EndLock(1, 1)
  \/ EndCommit(1)
  \/ \E cart \in CartsOf(BillLines, MaxCartLen), sid \in {NULL, 1}, m \in BillManual :
        CheckoutStart(1, cart, sid, m)
  \/ CheckoutItem(1)
  \/ CheckoutCommit(1)
  \/ \E price \in TabPrices : UpdateProduct(1, "p1", price)
  \/ /\ call[1] = Idle
     /\ SessionExists(1)
     /\ sessions[1].status = "active"
     /\ Tick(TickSec, (MaxTime + 1) * TickSec, FALSE)

SpecBill == InitBill /\ [][NextBill]_vars

\* The ledger: receipts are made while sessions run, items are put on the tab
\* and the catalog is renamed and repriced; two requests in flight, the clock
\* stands still.
InitLedger == InitWith({1200}, ShopStock)

LedgerNames == {"cola", "zero"}

NextLedger ==
  \/ \E p \in Procs : StartLock(p, "c1", "1v1", 1)
  \/ \E p \in Procs : StartCommit(p)
  \/ \E p \in Procs : PauseSession(p, 1)
  \/ \E p \in Procs : EndLock(p, 1)
  \/ \E p \in Procs : EndCommit(p)
  \/ \E p \in Procs : AddRead(p, 1, "p1", 1)
  \/ \E p \in Procs : AddWrite(p)
  \/ \E p \in Procs, cart \in CartsOf(BillLines, MaxCartLen), sid \in {NULL, 1} :
        CheckoutStart(p, cart, sid, NULL)
  \/ \E p \in Procs : CheckoutItem(p)
  \/ \E p \in Procs : CheckoutDeadlock(p)
  \/ \E p \in Procs : CheckoutCommit(p)
  \/ \E p \in Procs, price \in TabPrices : UpdateProduct(p, "p1", price)
  \/ \E p \in Procs, name \in LedgerNames : RenameProduct(p, "p1", name)

SpecLedger == InitLedger /\ [][NextLedger]_vars

\* The display: the cost of a running session is previewed between the
\* requests that start, pause, resume, switch and end it, while the registry
\* rewrites the console's 2v2 rate; one request at a time, under a clock that
\* advances between requests.
InitPreview == InitWith({1200}, ShopStock)

PreviewRates2v2 == {NULL, 0 - 100, 1200}

NextPreview ==
  \/ \E c \in ConsoleArgs, m \in Modes : StartLock(1, c, m, 1)
  \/ StartCommit(1)
  \/ PauseSession(1, 1)
  \/ ResumeRead(1, 1)
  \/ ResumeWrite(1)
  \/ EndLock(1, 1)
  \/ EndCommit(1)
  \/ \E m \in Modes : ModeRead(1, 1, m)
  \/ ModeWrite(1)
  \/ \E s \in SessionArgs : GetSessionCostPreview(1, s)
  \/ PreviewReturn(1)
  \/ \E c \in ConsoleArgs, r \in PreviewRates2v2 : UpdateConsole(1, c, r)
  \/ /\ \A p \in Procs : call[p] = Idle
     /\ Tick(TickSec, (MaxTime + 1) * TickSec, TRUE)

SpecPreview == InitPreview /\ [][NextPreview]_vars

\* The counter: walk-in sales only, two checkouts in flight over the same
\* shelf.
InitSale == InitWith({1200}, ShopStock)

NextSale ==
  \/ \E p \in Procs, cart \in CartsOf(ShopLines, MaxCartLen) : CheckoutStart(p, cart, NULL, NULL)
  \/ \E p \in Procs : CheckoutItem(p)
  \/ \E p \in Procs : CheckoutDeadlock(p)
  \/ \E p \in Procs : CheckoutCommit(p)

SpecSale == InitSale /\ [][NextSale]_vars

\* The counter with its scheduling: a transaction that can commit does, a
\* cycle of waiting transactions is broken by the server, and a transaction
\* waiting for a row lock gets it in its turn (the server queues the waiters).
FairSale ==
  \A p \in Procs :
    /\ SF_vars(CheckoutItem(p))
    /\ WF_vars(CheckoutCommit(p))
    /\ WF_vars(CheckoutDeadlock(p))

SpecSaleLive == InitSale /\ [][NextSale]_vars /\ FairSale

\* The office: the console's base rate is edited through PUT /consoles/:id
\* between the requests that start, pause, resume and end a session; one
\* request at a time, under a clock that advances between requests.
InitOffice == InitWith({1200}, ShopStock)

OfficeRates == {0 - 800, 800}

NextOffice ==
  \/ \E c \in ConsoleArgs, m \in Modes : StartLock(1, c, m, 1)
  \/ StartCommit(1)
  \/ PauseSession(1, 1)
  \/ ResumeRead(1, 1)
  \/ ResumeWrite(1)
  \/ EndLock(1, 1)
  \/ EndCommit(1)
  \/ \E c \in ConsoleArgs, r \in OfficeRates : UpdateConsoleHandler(1, c, r)
  \/ /\ \A p \in Procs : call[p] = Idle
     /\ Tick(TickSec, MaxTime * TickSec, TRUE)

SpecOffice == InitOffice /\ [][NextOffice]_vars

\* The snapshot: a session is played and ended, the registry changes the
\* console's rates at any moment, and the session is checked out; one request
\* at a time, the clock runs while the session is played.
InitSnapshot == InitWith({1200}, ShopStock)

SnapshotRates == {NULL, 1000}

SnapshotCarts == CartsOf({[productId |-> "p1", quantity |-> 1]}, 1)

NextSnapshot ==
  \/ \E m \in Modes : StartLock(1, "c1", m, 1)
  \/ StartCommit(1)
  \/ EndLock(1, 1)
  \/ EndCommit(1)
  \/ \E r \in SnapshotRates, q \in SnapshotRates : UpdateConsoleRates(1, "c1", r, q)
  \/ \E cart \in SnapshotCarts : CheckoutStart(1, cart, 1, NULL)
  \/ CheckoutItem(1)
  \/ CheckoutCommit(1)
  \/ /\ call[1] = Idle
     /\ SessionExists(1)
     /\ sessions[1].status = "active"
     /\ Tick(TickSec, MaxTime * TickSec, FALSE)

SpecSnapshot == InitSnapshot /\ [][NextSnapshot]_vars

\* ------------------------------------------------------------------- claims
Live(s) == sessions[s].status # "ended"

\* C1: in every reachable state each console is referenced by at most one
\* session whose status is not ended.
C1_ConsoleExclusive ==
  \A c \in ConsoleIds :
    Cardinality({s \in 1..Len(sessions) : sessions[s].console_id = c /\ Live(s)}) <= 1

\* C4: ended is terminal: no step takes a session whose status is ended back
\* to active or paused.
C4_EndedIsTerminal ==
  [][\A s \in 1..Len(sessions) :
       sessions[s].status = "ended" => sessions'[s].status = "ended"]_vars

\* C8: totalPausedDurationMs of a session never decreases from one state to
\* the next.
C8_PausedTotalMonotone ==
  [][\A s \in 1..Len(sessions) :
       sessions'[s].total_paused_duration >= sessions[s].total_paused_duration]_vars

\* C9: in every reachable state and for every session, pausedAt is non-null
\* if and only if the status is paused.
C9_PausedAtIffPaused ==
  \A s \in 1..Len(sessions) :
    (sessions[s].paused_at # NULL) <=> (sessions[s].status = "paused")

\* C9 witness: a session that was paused, resumed and paused again.
C9_Witness ==
  \E s \in 1..Len(sessions) :
    /\ sessions[s].status = "paused"
    /\ sessions[s].paused_at # NULL
    /\ sessions[s].total_paused_duration > 0

\* C10: finalCost and endTime are null while the status is active or paused,
\* and once set they are never changed by any step.
C10_FinalCostSetOnce ==
  /\ [](\A s \in 1..Len(sessions) :
          Live(s) => sessions[s].final_cost = NULL /\ sessions[s].end_time = NULL)
  /\ [][\A s \in 1..Len(sessions) :
          /\ sessions[s].final_cost # NULL =>
                sessions'[s].final_cost = sessions[s].final_cost
          /\ sessions[s].end_time # NULL =>
                sessions'[s].end_time = sessions[s].end_time]_vars

StartWaiting(p, c) ==
  call[p].op = "start" /\ call[p].pc = "wait" /\ call[p].cid = c

StartLocked(p, c) ==
  call[p].op = "start" /\ call[p].pc = "locked" /\ call[p].cid = c

\* C5: of two start calls that run concurrently against the same available
\* console at most one succeeds: at most one start transaction at a time is
\* past the availability check of a console, a start that commits takes the
\* console from available to in-use and creates one session, and a start that
\* waited for the console while the other one took it fails with
\* ConsoleUnavailable, creating no session.
C5_ConcurrentStart ==
  /\ [](\A c \in ConsoleIds : Cardinality({p \in Procs : StartLocked(p, c)}) <= 1)
  /\ [][\A p \in Procs :
          StartCommit(p) =>
            /\ consoles[call[p].cid].status = "available"
            /\ consoles'[call[p].cid].status = "in-use"
            /\ Len(sessions') = Len(sessions) + 1]_vars
  /\ [][\A p \in Procs, c \in ConsoleIds :
          (StartWaiting(p, c) /\ call'[p] = Idle /\ consoles[c].status = "in-use") =>
            /\ last' = "ConsoleUnavailable"
            /\ sessions' = sessions
            /\ consoles' = consoles]_vars

\* C5 witness: one start has committed while the other start on the same
\* console was waiting for the row.
C5_Witness ==
  \E p \in Procs, c \in ConsoleIds :
    /\ StartWaiting(p, c)
    /\ consoles[c].status = "in-use"
    /\ \E s \in 1..Len(sessions) : sessions[s].console_id = c /\ Live(s)

EndWaiting(p, s) ==
  call[p].op = "end" /\ call[p].pc = "wait" /\ call[p].sid = s

EndLocked(p, s) ==
  call[p].op = "end" /\ call[p].pc = "locked" /\ call[p].sid = s

\* C6: of two end calls that run concurrently on the same non-ended session
\* exactly one succeeds: at most one end transaction at a time is past the
\* status check of a session, the end that commits finds the row as it read
\* it, not ended, writes it once and sets the console available, and the end
\* that waited for the row fails with AlreadyEnded and writes nothing.
C6_ConcurrentEnd ==
  /\ [](\A s \in SessionArgs : Cardinality({p \in Procs : EndLocked(p, s)}) <= 1)
  /\ [][\A p \in Procs :
          EndCommit(p) =>
            LET s == call[p].sid
            IN  /\ sessions[s] = call[p].row
                /\ sessions[s].status # "ended"
                /\ sessions'[s].status = "ended"
                /\ sessions'[s].end_time = now
                /\ consoles'[sessions[s].console_id].status = "available"]_vars
  /\ [][\A p \in Procs, s \in SessionArgs :
          (EndWaiting(p, s) /\ call'[p] = Idle /\ sessions[s].status = "ended") =>
            /\ last' = "AlreadyEnded"
            /\ sessions' = sessions
            /\ consoles' = consoles]_vars

\* C6 witness: one end has committed while the other end of the same session
\* was waiting for the row.
C6_Witness ==
  \E p \in Procs, s \in 1..Len(sessions) :
    /\ EndWaiting(p, s)
    /\ sessions[s].status = "ended"
    /\ sessions[s].final_cost # NULL
    /\ consoles[sessions[s].console_id].status = "available"

\* the console's stored rate for a mode
StoredRate(con, mode) == IF mode = "2v2" THEN con.hourly_rate_2v2 ELSE con.hourly_rate

C2_OneReceiptPerSession ==
  \A i, j \in 1..Len(receipts) :
    (receipts[i].session_id # NULL /\ receipts[i].session_id = receipts[j].session_id)
      => i = j

\* the errors processCheckout throws before it reaches the cart
SessionRejections ==
  {"SessionNotFound", "SessionNotEnded", "DuplicateCheckout", "CostNotCalculated",
   "ConsoleNotFound", "NegativePrice"}

\* the step in which a checkout call of p ends in failure: rejected on arrival
\* (no request is left in flight), or thrown out of the cart loop
CheckoutFails(p) ==
  \/ /\ Free(p)
     /\ call' = call
     /\ last' \in SessionRejections
  \/ /\ call[p].op = "checkout"
     /\ call'[p] = Idle
     /\ last' # "ok"

\* C3: when a checkout call fails for any reason (missing product, stock below
\* the quantity, duplicate checkout, negative price), every product's stock is
\* what it was before the call, the lines processed before the failing one
\* included, and no receipt or receipt line has been created.
C3_FailedCheckoutRollsBack ==
  [][\A p \in Procs : CheckoutFails(p) => (products' = products /\ receipts' = receipts)]_vars

\* C3 witness: a checkout has taken stock for its first cart line and its next
\* line cannot be served (the product is missing or short of stock).
C3_Witness ==
  \E p \in Procs :
    /\ call[p].op = "checkout"
    /\ Len(call[p].lines) >= 1
    /\ Len(call[p].lines) < Len(call[p].cart)
    /\ LET item == call[p].cart[Len(call[p].lines) + 1]
       IN  \/ item.productId \notin DOMAIN products
           \/ /\ item.productId \in DOMAIN products
              /\ products[item.productId].stock
                   - SumQty(call[p].lines, item.productId) < item.quantity

\* C11: start on a console that does not exist or whose status is in-use,
\* maintenance or reserved fails with ConsoleUnavailable whatever the mode and
\* the rates are, creates no session and leaves the console unchanged.
C11_UnavailableStartFails ==
  [][\A p \in Procs, c \in ConsoleArgs, m \in Modes :
       (/\ StartLock(p, c, m, MaxSessions)
        /\ (c \notin DOMAIN consoles \/ consoles[c].status # "available"))
         => /\ last' = "ConsoleUnavailable"
            /\ call'[p] = Idle
            /\ sessions' = sessions
            /\ consoles' = consoles]_vars

\* C11 witness: a start has just been refused as ConsoleUnavailable while the
\* console is under maintenance and has no positive 1v1 rate either.
C11_Witness ==
  /\ last = "ConsoleUnavailable"
  /\ \A p \in Procs : call[p] = Idle
  /\ consoles["c1"].status = "maintenance"
  /\ consoles["c1"].hourly_rate = 0

\* C12: start on an available console succeeds if and only if the console's
\* rate for the requested mode is positive, the other mode's rate being
\* irrelevant; on success it creates an active session in the requested mode
\* with pausedAt null, totalPausedDurationMs 0 and finalCost null and sets
\* the console in-use; otherwise it fails for the missing rate, creates no
\* session and leaves the console available.
C12_StartIffModeRate ==
  /\ [][\A p \in Procs, c \in ConsoleIds, m \in Modes :
          (StartLock(p, c, m, MaxSessions) /\ consoles[c].status = "available") =>
            IF StoredRate(consoles[c], m) > 0
              THEN StartLocked(p, c)' /\ call'[p].mode = m
              ELSE /\ call'[p] = Idle
                   /\ last' \in {"UnsupportedMode", "NoValidRate"}
                   /\ sessions' = sessions
                   /\ consoles' = consoles]_vars
  /\ [][\A p \in Procs :
          StartCommit(p) =>
            /\ sessions' = Append(sessions,
                  [console_id |-> call[p].cid, status |-> "active",
                   gaming_mode |-> call[p].mode, start_time |-> now, end_time |-> NULL,
                   paused_at |-> NULL, total_paused_duration |-> 0, final_cost |-> NULL])
            /\ consoles'[call[p].cid].status = "in-use"
            /\ last' = "ok"]_vars

\* C16: changeGamingMode is rejected on an ended session, and on a non-ended
\* session it succeeds exactly when start on that console with that mode would
\* pass its rate checks; on failure the session's mode is unchanged.
C16_ModeChangeValidatesAsStart ==
  [][\A p \in Procs, s \in SessionArgs, m \in Modes :
       (ModeRead(p, s, m) /\ SessionExists(s)) =>
         /\ sessions' = sessions
         /\ IF sessions[s].status = "ended"
              THEN call'[p] = Idle /\ last' = "InvalidTransition"
              ELSE (call'[p].op = "mode")
                     <=> (StartRateCheck(consoles[sessions[s].console_id], m) = "ok")]_vars

\* C13: pause on an active session sets status to paused and pausedAt to the
\* current time; pause on a session that is already paused or is ended fails
\* with InvalidTransition, not success, and leaves the session unchanged.
C13_PauseOnlyFromActive ==
  [][\A p \in Procs, s \in SessionArgs :
       (PauseSession(p, s) /\ SessionExists(s)) =>
         IF sessions[s].status = "active"
           THEN /\ sessions'[s].status = "paused"
                /\ sessions'[s].paused_at = now
                /\ last' = "ok"
           ELSE /\ last' = "InvalidTransition"
                /\ sessions' = sessions]_vars

\* C14: resume on a paused session sets status to active, increases
\* totalPausedDurationMs by exactly now - pausedAt and clears pausedAt; resume
\* on a session that is active or ended fails with InvalidTransition and
\* changes nothing.
C14_ResumeAddsElapsed ==
  /\ [][\A p \in Procs :
          ResumeWrite(p) =>
            LET s == call[p].sid
            IN  /\ sessions[s].status = "paused"
                /\ sessions'[s].status = "active"
                /\ sessions'[s].paused_at = NULL
                /\ sessions'[s].total_paused_duration =
                     sessions[s].total_paused_duration + (now - sessions[s].paused_at)
                /\ sessions'[s].total_paused_duration = paused_clock[s]
                /\ last' = "ok"]_vars
  /\ [][\A p \in Procs, s \in SessionArgs :
          (ResumeRead(p, s) /\ SessionExists(s)) =>
            IF sessions[s].status = "paused"
              THEN call'[p].op = "resume"
              ELSE /\ last' = "InvalidTransition"
                   /\ call'[p] = Idle
                   /\ sessions' = sessions
                   /\ consoles' = consoles]_vars

\* C14 witness: a session that was paused for 15 minutes has been resumed.
C14_Witness ==
  \E s \in 1..Len(sessions) :
    /\ sessions[s].status = "active"
    /\ sessions[s].paused_at = NULL
    /\ sessions[s].total_paused_duration = 15 * SecPerMinute
    /\ paused_clock[s] = 15 * SecPerMinute

\* C15: end on an active or paused session sets status to ended and the
\* session's console to available; end on a session that is already ended
\* fails with AlreadyEnded and changes neither the session nor the console.
C15_EndOnlyOnce ==
  /\ [][\A p \in Procs, s \in SessionArgs :
          (EndLock(p, s) /\ SessionExists(s)) =>
            IF sessions[s].status = "ended"
              THEN /\ last' = "AlreadyEnded"
                   /\ call'[p] = Idle
                   /\ sessions' = sessions
                   /\ consoles' = consoles
              ELSE EndLocked(p, s)']_vars
  /\ [][\A p \in Procs :
          EndCommit(p) =>
            /\ call[p].row.status \in {"active", "paused"}
            /\ sessions'[call[p].sid].status = "ended"
            /\ consoles'[call[p].row.console_id].status = "available"
            /\ last' = "ok"]_vars

\* C15 witness: an end has just been refused on a session that had been ended.
C15_Witness ==
  /\ last = "AlreadyEnded"
  /\ \A p \in Procs : call[p] = Idle
  /\ \E s \in 1..Len(sessions) :
       /\ sessions[s].status = "ended"
       /\ sessions[s].final_cost # NULL
       /\ consoles[sessions[s].console_id].status = "available"

\* C17: the cost stored by end is the whole active duration priced at the rate
\* of the mode in effect when end runs, whatever modes were set before, and a
\* mode change writes only gamingMode.
C17_CostUsesModeAtEnd ==
  /\ [][\A p \in Procs :
          ModeWrite(p) =>
            /\ \A s \in 1..Len(sessions) :
                 sessions'[s] = IF s = call[p].sid
                                  THEN [sessions[s] EXCEPT !.gaming_mode = call[p].mode]
                                  ELSE sessions[s]
            /\ consoles' = consoles]_vars
  /\ [][\A p \in Procs :
          EndCommit(p) =>
            LET s == call[p].sid
                rate == StoredRate(consoles[sessions[s].console_id], sessions[s].gaming_mode)
            IN  sessions'[s].final_cost =
                  ToFixed2(Max(0, now - sessions[s].start_time - paused_clock[s]) * rate,
                           SecPerHour)]_vars

\* C17 witness: a session started in 1v1 was switched to 2v2 and ended after
\* one hour: the whole hour is billed at the 2v2 rate.
C17_Witness ==
  \E s \in 1..Len(sessions) :
    /\ sessions[s].status = "ended"
    /\ sessions[s].gaming_mode = "2v2"
    /\ sessions[s].end_time - sessions[s].start_time = SecPerHour
    /\ paused_clock[s] = 0
    /\ sessions[s].final_cost = consoles[sessions[s].console_id].hourly_rate_2v2

\* C18: a successful addItem decreases that product's stock by exactly q,
\* leaves every other product unchanged and appends exactly one SessionItem
\* whose unit price is the product's price at that moment and whose subtotal
\* is q times that price; no later step, a change of the catalog price
\* included, changes a SessionItem.
C18_AddItemTakesStockAndPrice ==
  /\ [][\A p \in Procs, s \in SessionArgs, pid \in TabProducts, q \in TabQuantities :
          (AddItemHandler(p, s, pid, q) /\ call'[p] # Idle) =>
            /\ call'[p].sid = s /\ call'[p].pid = pid /\ call'[p].quantity = q
            /\ call'[p].price = products[pid].price]_vars
  /\ [][\A p \in Procs :
          AddWrite(p) =>
            LET k == call[p]
            IN  /\ products'[k.pid].stock = products[k.pid].stock - k.quantity
                /\ products'[k.pid].price = products[k.pid].price
                /\ \A i \in ProductIds \ {k.pid} : products'[i] = products[i]
                /\ session_items' = Append(session_items,
                      [session_id |-> k.sid, product_id |-> k.pid, quantity |-> k.quantity,
                       unit_price |-> k.price, subtotal |-> k.quantity * k.price])
                /\ last' = "ok"]_vars
  /\ [][\A i \in 1..Len(session_items) : session_items'[i] = session_items[i]]_vars

\* C18 witness: the example: stock 45, price 2.50, q = 3 gives stock 42 and a
\* line of 7.50, which stays as it is after the catalog price became 3.00.
C18_Witness ==
  /\ products["p1"].stock = 42
  /\ products["p1"].price = 300
  /\ \E i \in 1..Len(session_items) :
       session_items[i] = [session_id |-> 1, product_id |-> "p1", quantity |-> 3,
                           unit_price |-> 250, subtotal |-> 750]

\* C19: addItem with quantity <= 0 is rejected: it leaves the product's stock
\* unchanged and appends no SessionItem.
C19_NonPositiveQuantityRejected ==
  /\ [][\A p \in Procs, s \in SessionArgs, pid \in TabProducts, q \in TabQuantities :
          (AddItemHandler(p, s, pid, q) /\ q <= 0) =>
            /\ products' = products
            /\ session_items' = session_items]_vars
  /\ [][\A p \in Procs :
          (AddWrite(p) /\ call[p].quantity <= 0) =>
            /\ products' = products
            /\ session_items' = session_items]_vars

\* C20: addItem fails, leaving all stock counts and the tab unchanged, when
\* the session is ended or missing, when the product does not exist
\* (ProductNotFound) or when its stock is below the quantity asked for
\* (InsufficientStock).
C20_AddItemFailures ==
  [][\A p \in Procs, s \in SessionArgs, pid \in TabProducts, q \in TabQuantities :
       (AddItemHandler(p, s, pid, q) /\ q > 0) =>
         LET noSession == ~ SessionExists(s) \/ sessions[s].status = "ended"
             noProduct == pid \notin DOMAIN products
             short == ~ noProduct /\ products[pid].stock < q
         IN  IF noSession \/ noProduct \/ short
               THEN /\ call'[p] = Idle
                    /\ last' # "ok"
                    /\ (~ noSession /\ noProduct) => last' = "ProductNotFound"
                    /\ (~ noSession /\ short) => last' = "InsufficientStock"
                    /\ products' = products
                    /\ session_items' = session_items
               ELSE call'[p].op = "add"]_vars

\* C20 witness: an addItem on a live session has just been refused for
\* insufficient stock, the catalog and the tab being as they were seeded.
C20_Witness ==
  /\ last = "InsufficientStock"
  /\ \A p \in Procs : call[p] = Idle
  /\ \E s \in 1..Len(sessions) : Live(s)
  /\ \A i \in ProductIds : products[i].stock = TabStock[i]
  /\ session_items = <<>>

\* C21: a checkout that names a session which is active or paused ends with
\* SessionNotEnded whatever its cart and override are, and leaves every
\* receipt and every stock count as it was.
C21_LiveSessionNotCheckedOut ==
  [][\A p \in Procs, s \in SessionArgs, m \in BillManual,
        cart \in CartsOf(BillLines, MaxCartLen) :
       (/\ SessionExists(s)
        /\ sessions[s].status \in {"active", "paused"}
        /\ CheckoutStart(p, cart, s, m))
         => /\ last' = "SessionNotEnded"
            /\ call'[p] = Idle
            /\ receipts' = receipts
            /\ products' = products]_vars

C21_Witness ==
  /\ last = "SessionNotEnded"
  /\ SessionExists(1)
  /\ sessions[1].status = "paused"
  /\ call[1] = Idle

\* C22: of two checkouts of one session called one after the other, the first
\* leaves the session's only receipt and the second, whatever its cart, ends
\* with DuplicateCheckout before any cart line is processed: no receipt is
\* added and no stock count changes.
C22_SecondCheckoutRejected ==
  /\ [][\A p \in Procs, s \in SessionArgs, m \in BillManual,
          cart \in CartsOf(BillLines, MaxCartLen) :
         (/\ \E i \in 1..Len(receipts) : receipts[i].session_id = s
          /\ CheckoutStart(p, cart, s, m))
           => /\ last' = "DuplicateCheckout"
              /\ call'[p] = Idle
              /\ receipts' = receipts
              /\ products' = products]_vars
  /\ [](\A i, j \in 1..Len(receipts) :
          (receipts[i].session_id # NULL /\ receipts[i].session_id = receipts[j].session_id)
            => i = j)

C22_Witness ==
  /\ last = "DuplicateCheckout"
  /\ Len(receipts) = 1
  /\ receipts[1].session_id = 1
  /\ call[1] = Idle

\* C24: a checkout of an ended, unpaid session with an override below 0 ends
\* with NegativePrice, adds no receipt and changes no stock count, and the
\* session is as ready to be checked out afterwards as it was before.
C24_NegativeOverrideRejected ==
  [][\A p \in Procs, s \in SessionArgs, m \in BillManual,
        cart \in CartsOf(BillLines, MaxCartLen) :
       (/\ SessionExists(s)
        /\ sessions[s].status = "ended"
        /\ ~ \E i \in 1..Len(receipts) : receipts[i].session_id = s
        /\ m # NULL
        /\ m < 0
        /\ CheckoutStart(p, cart, s, m))
         => /\ last' = "NegativePrice"
            /\ call'[p] = Idle
            /\ receipts' = receipts
            /\ products' = products
            /\ sessions' = sessions
            /\ CheckoutCheck(s, NULL)' = "ok"]_vars

C24_Witness ==
  /\ last = "NegativePrice"
  /\ SessionExists(1)
  /\ sessions[1].status = "ended"
  /\ sessions[1].final_cost = 800
  /\ receipts = <<>>
  /\ call[1] = Idle

\* C23: the receipt of a session's checkout carries, as calculated cost, the
\* final cost that end stored on the session, and charges the override when
\* the request gave one (an override of 0 included) and the calculated cost
\* otherwise; with an empty cart the subtotal and the total are that charge.
C23_ChargedIsOverrideOrFinalCost ==
  /\ [][\A p \in Procs, s \in SessionArgs, m \in BillManual,
          cart \in CartsOf(BillLines, MaxCartLen) :
         (CheckoutStart(p, cart, s, m) /\ call'[p] # Idle)
           => /\ call'[p].sid = s
              /\ call'[p].manual = m
              /\ call'[p].cart = cart]_vars
  /\ [][\A p \in Procs :
         (CheckoutCommit(p) /\ call[p].sid # NULL)
           => LET r == receipts'[Len(receipts')]
                  finalCost == sessions[call[p].sid].final_cost
              IN  /\ Len(receipts') = Len(receipts) + 1
                  /\ r.session_id = call[p].sid
                  /\ r.calculated_console_price = finalCost
                  /\ r.charged = IF call[p].manual # NULL THEN call[p].manual ELSE finalCost
                  /\ call[p].cart = <<>> => (r.subtotal = r.charged /\ r.total = r.charged)]_vars

C23_Witness ==
  /\ Len(receipts) = 2
  /\ receipts[1].session_id = 1
  /\ receipts[1].calculated_console_price = 800
  /\ receipts[1].charged = 500
  /\ receipts[1].items = <<>>
  /\ receipts[1].subtotal = 500
  /\ receipts[1].total = 500
  /\ receipts[2].session_id = NULL
  /\ sessions[1].final_cost = 800

RECURSIVE CartTotal(_)
\* what the cart costs at the catalog's prices of this moment
CartTotal(cart) ==
  IF cart = <<>> THEN 0
  ELSE cart[1].quantity * products[cart[1].productId].price + CartTotal(Tail(cart))

\* C25: the receipt's subtotal is the charged console cost (0 for a checkout
\* without a sessionId, whatever override it passed) plus, for every cart
\* line, quantity times the product's price at checkout; tax is subtotal times
\* the tax rate 0 and total is subtotal plus tax.
C25_ReceiptTotals ==
  /\ TAX_RATE = 0
  /\ [][\A p \in Procs, m \in BillManual, cart \in CartsOf(BillLines, MaxCartLen) :
         (CheckoutStart(p, cart, NULL, m) /\ call'[p] # Idle)
           => /\ call'[p].sid = NULL
              /\ call'[p].cart = cart]_vars
  /\ [][\A p \in Procs :
         CheckoutCommit(p)
           => LET r == receipts'[Len(receipts')]
                  k == call[p]
                  console == IF k.sid = NULL THEN 0
                             ELSE IF k.manual # NULL THEN k.manual
                             ELSE sessions[k.sid].final_cost
              IN  /\ Len(receipts') = Len(receipts) + 1
                  /\ r.subtotal = console + CartTotal(k.cart)
                  /\ r.tax = r.subtotal * TAX_RATE
                  /\ r.total = r.subtotal + r.tax]_vars

C25_Witness ==
  /\ Len(receipts) = 2
  /\ receipts[1].session_id = NULL
  /\ Len(receipts[1].items) = 2
  /\ receipts[1].subtotal = 550
  /\ receipts[1].total = 550
  /\ receipts[2].session_id = 1
  /\ receipts[2].charged = 500
  /\ Len(receipts[2].items) = 1
  /\ receipts[2].subtotal = 750
  /\ receipts[2].tax = 0
  /\ receipts[2].total = 750

\* C26: a receipt that has been committed stays in the ledger exactly as it
\* was written, lines included, whatever operation comes later: a checkout,
\* an addItem, a session operation, a new price or a new name of a product.
C26_ReceiptsImmutable ==
  [][\A i \in 1..Len(receipts) :
       /\ i <= Len(receipts')
       /\ receipts'[i] = receipts[i]]_vars

C26_Witness ==
  /\ Len(receipts) = 2
  /\ Len(receipts[1].items) > 0
  /\ receipts[1].items[1].product_id = "p1"
  /\ receipts[1].items[1].product_name = "cola"
  /\ receipts[1].items[1].unit_price = 250
  /\ products["p1"].name = "zero"
  /\ products["p1"].price = 300
  /\ Len(session_items) > 0
  /\ SessionExists(1)
  /\ sessions[1].status = "ended"

\* C27: the cost preview writes nothing, and for a session that has not ended
\* the cost it reports for the session's current mode is the final cost that
\* end, called at the same moment, would store.
C27_PreviewAgreesWithEnd ==
  [][\A p \in Procs, s \in SessionArgs :
       GetSessionCostPreview(p, s)
         => /\ UNCHANGED <<consoles, sessions, products, session_items, receipts>>
            /\ call'[p] # Idle
                 => (IF sessions[s].gaming_mode = "2v2"
                       THEN call'[p].currentCost2v2 ELSE call'[p].currentCost1v1)
                    = EndFinalCost(sessions[s], consoles[sessions[s].console_id], now)]_vars

\* C28: whenever a console's status changes, the step is either the
\* registry's own status update, or a successful start taking the console
\* from available to in-use, or a successful end taking it from in-use to
\* available; a console in maintenance or reserved is left alone by every
\* session operation.
C28_SessionOpsConsoleStatus ==
  [][\A c \in ConsoleIds :
       consoles'[c].status # consoles[c].status
         => \/ \E p \in Procs, st \in StatusArgs : UpdateConsoleStatus(p, c, st)
            \/ /\ consoles[c].status = "available"
               /\ consoles'[c].status = "in-use"
               /\ \E p \in Procs : StartCommit(p)
            \/ /\ consoles[c].status = "in-use"
               /\ consoles'[c].status = "available"
               /\ \E p \in Procs : EndCommit(p)]_vars

RECURSIVE SoldUnits(_, _)
\* units of product pid on the lines of the receipts rs
SoldUnits(rs, pid) ==
  IF rs = <<>> THEN 0 ELSE SumQty(rs[1].items, pid) + SoldUnits(Tail(rs), pid)

\* C29: with checkouts running concurrently, the units of a product on all
\* receipts plus the units left make up the stock there was, and no stock
\* count is below 0: two checkouts that together ask for more than is in
\* stock do not both commit.
C29_ConcurrentCheckoutsNoOversell ==
  \A pid \in ProductIds :
    /\ products[pid].stock >= 0
    /\ products[pid].stock + SoldUnits(receipts, pid) = ShopStock[pid]

C29_Witness ==
  /\ call[1] = Idle
  /\ call[2].op = "checkout"
  /\ NextProduct(2) = "p1"
  /\ Len(receipts) = 1
  /\ SumQty(receipts[1].items, "p1") = MaxStock
  /\ products["p1"].stock = 0

\* C30: in every reachable state every product's stock is at least 0,
\* however addItem and checkout calls interleave.
C30_StockNeverNegative == \A pid \in ProductIds : products[pid].stock >= 0

\* the tab of session s: its lines in session_items, in order
TabOf(items, s) == SelectSeq(items, LAMBDA it : it.session_id = s)

\* C31: once a session's status is ended its tab stays as it is and no stock
\* is taken for it: no addItem writes a line or decrements stock for a
\* session that has already ended, however addItem and end interleave.
C31_TabClosedAfterEnd ==
  [][\A s \in SessionArgs :
       (SessionExists(s) /\ sessions[s].status = "ended")
         => /\ TabOf(session_items', s) = TabOf(session_items, s)
            /\ \A p \in Procs :
                 (call[p].op = "add" /\ call[p].sid = s) => products' = products]_vars

\* C32: the gaming mode stored on an ended session never changes, however
\* changeGamingMode and end interleave, so the stored final cost of an ended
\* session is always its active duration priced at the rate of its stored
\* mode.
C32_EndedModeFrozen ==
  [][\A s \in SessionArgs :
       (SessionExists(s) /\ sessions[s].status = "ended")
         => sessions'[s].gaming_mode = sessions[s].gaming_mode]_vars

\* C33: with no status written by the registry, a console is in-use exactly
\* when some session on it is active or paused.
C33_InUseIffLiveSession ==
  \A c \in ConsoleIds :
    consoles[c].status = "in-use"
      <=> \E s \in SessionArgs :
            /\ SessionExists(s)
            /\ sessions[s].console_id = c
            /\ sessions[s].status \in {"active", "paused"}

\* C34: every session whose status is ended has a final cost that is set and
\* not below 0, an end time that is set and not before its start time, and
\* no paused_at; so the checkout of an ended session never answers
\* CostNotCalculated.
C34_EndedSessionComplete ==
  \A s \in SessionArgs :
    (SessionExists(s) /\ sessions[s].status = "ended")
      => /\ sessions[s].final_cost # NULL
         /\ sessions[s].final_cost >= 0
         /\ sessions[s].end_time # NULL
         /\ sessions[s].end_time >= sessions[s].start_time
         /\ sessions[s].paused_at = NULL
         /\ \A m \in BillManual : CheckoutCheck(s, m) # "CostNotCalculated"

RECURSIVE CartQty(_, _)
\* units of product pid asked for by the lines of a cart
CartQty(cart, pid) ==
  IF cart = <<>> THEN 0
  ELSE (IF cart[1].productId = pid THEN cart[1].quantity ELSE 0) + CartQty(Tail(cart), pid)

\* C35: a cart that lists a product on several lines is checked line by line
\* against what the earlier lines of the same call have left: a checkout
\* commits only when, for every product, all its lines together ask for no
\* more than the stock, and it then takes exactly that many units; a line
\* that, with the lines before it, asks for more ends the call with
\* InsufficientStock and the stock as it was.
C35_CartLinesAddUp ==
  /\ [][\A p \in Procs :
         CheckoutCommit(p)
           => \A pid \in ProductIds :
                /\ CartQty(call[p].cart, pid) <= products[pid].stock
                /\ products'[pid].stock = products[pid].stock - CartQty(call[p].cart, pid)]_vars
  /\ [][\A p \in Procs :
         (CheckoutItem(p) /\ NextProduct(p) \in ProductIds)
           => LET n == Len(call[p].lines) + 1
                  pid == NextProduct(p)
                  sofar == CartQty(SubSeq(call[p].cart, 1, n), pid)
              IN  IF sofar > products[pid].stock
                    THEN /\ last' = "InsufficientStock"
                         /\ call'[p] = Idle
                         /\ products' = products
                         /\ receipts' = receipts
                    ELSE /\ call'[p] # Idle
                         /\ Len(call'[p].lines) = n]_vars

C35_Witness ==
  /\ Len(receipts) = 1
  /\ Len(receipts[1].items) = 2
  /\ receipts[1].items[1].product_id = "p1"
  /\ receipts[1].items[2].product_id = "p1"
  /\ products["p1"].stock = ShopStock["p1"] - 2
  /\ products["p2"].stock = ShopStock["p2"]
  /\ last = "InsufficientStock"

\* units of product pid on the tab lines, all sessions together
TabUnits(pid) == SumQty(session_items, pid)

\* C36: for every product, the stock there was at the start minus the stock
\* there is equals the units on all tab lines plus the units on all receipt
\* lines; calls that fail or are rolled back take nothing, and no decrement of
\* two concurrent calls is lost.
C36_StockConserved ==
  \A pid \in ProductIds :
    ShopStock[pid] - products[pid].stock = TabUnits(pid) + SoldUnits(receipts, pid)

C36_Witness ==
  /\ TabUnits("p1") = 1
  /\ SoldUnits(receipts, "p1") = MaxStock
  /\ products["p1"].stock = 0 - 1
  /\ \A p \in Procs : call[p] = Idle

\* C37: on every receipt of a session the console usage agrees with what end
\* billed: the minutes are the active duration of the session and are not
\* negative, and the rate is the one end priced them with, so that the
\* calculated cost is those minutes at that rate, also after the console's
\* rates have been changed between end and checkout.
C37_SnapshotAgreesWithEnd ==
  \A i \in 1..Len(receipts) :
    receipts[i].session_id # NULL
      => LET r == receipts[i]
             ses == sessions[r.session_id]
         IN  /\ r.duration >= 0
             /\ r.duration = RoundMinutes(ses.end_time - ses.start_time
                                            - ses.total_paused_duration)
             /\ r.calculated_console_price
                  = ToFixed2(r.duration * SecPerMinute * r.rate, SecPerHour)

\* C38: every checkout that is in flight completes, by a commit or by an
\* error, whatever other checkouts run beside it; two checkouts that lock
\* the same two products in opposite order do not wait for each other
\* forever.
C38_CheckoutsComplete ==
  \A p \in Procs : (call[p].op = "checkout") ~> (call[p] = Idle)

C38_Witness ==
  /\ last = "Deadlock"
  /\ \E p \in Procs :
       /\ call[p].op = "checkout"
       /\ Len(call[p].cart) = 2
       /\ Len(call[p].lines) = 1
       /\ call[p].cart[1].productId # call[p].cart[2].productId
       /\ call[p].cart[2].productId \in ProductIds
  /\ \E q \in Procs : call[q] = Idle

\* C39: a session that is active or paused can always be ended: an end that
\* gets the row of such a session goes on and, its console being there, sets
\* the session to ended and the console to available; so, with end calls
\* made and served fairly, every started session is eventually ended with
\* its console available again.
C39_StartedSessionEnds ==
  /\ [][\A p \in Procs, s \in SessionArgs :
         (EndLock(p, s) /\ SessionExists(s) /\ sessions[s].status \in {"active", "paused"})
           => /\ call'[p] # Idle
              /\ call'[p].pc = "locked"]_vars
  /\ [][\A p \in Procs :
         (EndCommit(p) /\ call[p].row.console_id \in DOMAIN consoles)
           => /\ last' = "ok"
              /\ sessions'[call[p].sid].status = "ended"
              /\ consoles'[call[p].row.console_id].status = "available"]_vars
  /\ \A s \in {1} :
       (SessionExists(s) /\ sessions[s].status \in {"active", "paused"})
         ~> (/\ SessionExists(s)
             /\ sessions[s].status = "ended"
             /\ consoles[sessions[s].console_id].status = "available")

C39_Witness ==
  /\ SessionExists(1)
  /\ sessions[1].status = "ended"
  /\ sessions[1].total_paused_duration = TickSec
  /\ sessions[1].end_time = 2 * TickSec
  /\ consoles["c1"].status = "available"
  /\ \A p \in Procs : call[p] = Idle

====
